---- MODULE Spec2Model ----
(***************************************************************************)
(* State-machine model of BLEServer (src/src/BLEServer.cpp): the blocking  *)
(* facade calls of the application threads, the GATT/GAP event handlers of *)
(* the dispatcher with the forwarding of events to the services and the    *)
(* application callbacks, the service registry and the connection table.   *)
(*                                                                         *)
(* FreeRTOS::Semaphore, BLEServiceMap and BLEService::executeCreate live   *)
(* in other files of the library; they are modelled from the design        *)
(* document (4.1, 4.2, 4.4, 6) and from the comments at BLEServer.cpp:192, *)
(* 242 and 286.                                                            *)
(***************************************************************************)
EXTENDS Integers, FiniteSets, Sequences, TLC

\* ------------------------------------------------------------------ bounds
MaxServices == 2      \* service objects ever created
MaxCount    == 2      \* largest value m_connectedCount is driven up to
MaxWrap     == 1      \* how far m_connectedCount is driven below zero

\* ------------------------------------------------- constants of the code
ESP_GATT_OK      == 0          \* esp_gatt_status_t success code
ESP_GATT_IF_NONE == 255        \* initial m_gatts_if / m_appId / m_connId
DefaultMTU       == 23         \* conn_status_t.mtu set by addPeerDevice
Half             == 65536      \* 2^16: uint32_t values are kept as <<hi, lo>>

Threads    == {"t1", "t2"}              \* application threads calling the facade
ServiceIds == 1..MaxServices           \* identities of BLEService objects
Handles    == 41..(40 + MaxServices)   \* service handles the controller issues
ConnIds    == {7, 8}                    \* connection identifiers the controller reuses
UUIDs      == {"180D", "180F"}
InstIds    == {0, 1}
Addrs      == {"A", "B"}
MTUs       == {100, 200}
Statuses   == {ESP_GATT_OK, 133}      \* success and ESP_GATT_ERROR (0x85)
Rssis      == {-60, -45}
GattsIfs   == {3, 4}                   \* interfaces the controller assigns to applications
AppIds     == {1, 2}
NULL       == 0                         \* nullptr: no BLEService object
NoAddr     == "00:00:00:00:00:00"
Dangling   == -1                        \* an iterator to an entry that was erased
Callbacks  == {1}                       \* BLEServerCallbacks objects of the application
OtherEvents == {"ESP_GATTS_WRITE_EVT", "ESP_GATTS_CONF_EVT"}   \* a no-op case, a kind with no case

\* ------------------------------------------------ uint32_t as <<hi, lo>>
U32(n) == <<n \div Half, n % Half>>

U32Zero == U32(0)

U32One == U32(1)

\* x + 1 on uint32_t (wraps from 2^32-1 to 0)
U32Inc(x) ==
  IF x[2] = Half - 1 THEN <<(x[1] + 1) % Half, 0>> ELSE <<x[1], x[2] + 1>>

\* x - 1 on uint32_t (wraps from 0 to 2^32-1)
U32Dec(x) ==
  IF x[2] = 0 THEN <<(x[1] + Half - 1) % Half, Half - 1>> ELSE <<x[1], x[2] - 1>>

\* unsigned x >= n for a small natural n
U32Geq(x, n) == x[1] > 0 \/ x[2] >= n

\* (uint32_t) of an int8_t: sign extension
U32OfInt8(r) == IF r < 0 THEN <<Half - 1, Half + r>> ELSE <<0, r>>

\* (int) of a uint32_t: two's complement
IntOfU32(x) == IF x[1] >= Half \div 2 THEN (x[1] - Half) * Half + x[2]
               ELSE x[1] * Half + x[2]

\* ------------------------------------------------------------------ state
VARIABLES
  pc,                         \* position of each application thread
  ret,                        \* what each thread's last facade call returned
  m_appId, m_gatts_if, m_connectedCount, m_connId, m_client_addr,
  m_pServerCallbacks,         \* the application's callback object, or NULL
  m_connectedServersMap,      \* conn_id -> conn_status_t
  m_uuidMap, m_handleMap,     \* m_serviceMap: services by UUID, by handle
  services,                   \* the BLEService objects: uuid and m_instId
  m_semaphoreRegisterAppEvt, m_semaphoreCreateEvt,
  m_semaphoreOpenEvt, m_semaphoreRssiCmplEvt,
  pending,                    \* requests the controller accepted, not yet completed
  local,                      \* locals of the call a thread is in (appId, pService)
  answer,                     \* history: what the completion event of a thread's request carried
  link,                       \* history: conn_id -> peer address of the links the controller has open
  lastEvt,                    \* history: the GATT server event the dispatcher handled last
  read_rssi_cmpl              \* history: rssi of the last read-complete event

vars == <<pc, ret, m_appId, m_gatts_if, m_connectedCount, m_connId, m_client_addr,
          m_pServerCallbacks, m_connectedServersMap, m_uuidMap, m_handleMap, services,
          m_semaphoreRegisterAppEvt, m_semaphoreCreateEvt, m_semaphoreOpenEvt,
          m_semaphoreRssiCmplEvt, pending, local, answer, link, lastEvt,
          read_rssi_cmpl>>

serverVars == <<m_appId, m_gatts_if, m_connectedCount, m_connId, m_client_addr,
                m_pServerCallbacks, m_connectedServersMap>>

sems == <<m_semaphoreRegisterAppEvt, m_semaphoreCreateEvt, m_semaphoreOpenEvt,
          m_semaphoreRssiCmplEvt>>

\* ------------------------------------------- FreeRTOS::Semaphore (spec 4.1)
\* A binary semaphore with a value slot: take() blocks while it is taken,
\* give(v) stores v and releases it, wait() blocks until it is released and
\* returns the stored value.
SemInit == [taken |-> FALSE, value |-> U32Zero]

SemFree(s) == ~s.taken

SemTake(s) == [s EXCEPT !.taken = TRUE]

SemGive(s, v) == [taken |-> FALSE, value |-> v]

SemWait(s) == s.value

\* ------------------------------------------------ BLEServiceMap (spec 4.2)
\* getByUUID(uuid, inst_id): the entries the lookup can resolve to.  The
\* instance discriminator does not take part in the match, so with several
\* services of one UUID the lookup resolves to any of them.
getByUUID(uuid, inst_id) ==
  LET hits == {s \in m_uuidMap : services[s].uuid = uuid}
  IN  IF hits = {} THEN {NULL} ELSE hits

setByUUID(s) == m_uuidMap \cup {s}

setByHandle(handle, s) ==
  [h \in DOMAIN m_handleMap \cup {handle} |->
     IF h = handle THEN s ELSE m_handleMap[h]]

getByHandle(handle) ==
  IF handle \in DOMAIN m_handleMap THEN m_handleMap[handle] ELSE NULL

\* BLEServiceMap::removeService(service): the service leaves both maps
m_serviceMap_removeService(service) ==
  [uuidMap   |-> m_uuidMap \ {service},
   handleMap |-> [h \in {k \in DOMAIN m_handleMap : m_handleMap[k] # service} |->
                    m_handleMap[h]]]

\* ------------------------------------------------------- connection table
\* std::map::insert keeps an entry that is already there
addPeerDevice(conn_id) ==
  IF conn_id \in DOMAIN m_connectedServersMap
  THEN m_connectedServersMap
  ELSE [c \in DOMAIN m_connectedServersMap \cup {conn_id} |->
          IF c = conn_id
          THEN [peer_device |-> "this", connected |-> TRUE, mtu |-> DefaultMTU]
          ELSE m_connectedServersMap[c]]

\* removePeerDevice marking the entry instead of erasing it
removePeerDevice_markOnly(conn_id) ==
  IF conn_id \in DOMAIN m_connectedServersMap
  THEN [m_connectedServersMap EXCEPT ![conn_id].connected = FALSE]
  ELSE m_connectedServersMap

removePeerDevice(conn_id) ==
  [c \in DOMAIN m_connectedServersMap \ {conn_id} |-> m_connectedServersMap[c]]

\* updatePeerMTU written with m_connectedServersMap[conn_id].mtu = mtu:
\* operator[] makes an entry when there is none
updatePeerMTU_subscript(conn_id, mtu) ==
  [c \in DOMAIN m_connectedServersMap \cup {conn_id} |->
     IF c = conn_id
     THEN [peer_device |-> "this", connected |-> TRUE, mtu |-> mtu]
     ELSE m_connectedServersMap[c]]

updatePeerMTU(conn_id, mtu) ==
  IF conn_id \in DOMAIN m_connectedServersMap
  THEN [m_connectedServersMap EXCEPT ![conn_id].mtu = mtu]
  ELSE m_connectedServersMap

getPeerDevices == m_connectedServersMap

getPeerAddress == m_client_addr

getConnectedCount == m_connectedCount

getGattsIf == m_gatts_if

NoRet == [op |-> "none"]

\* a thread's request has not been answered by a completion event
NoAnswer == [got |-> FALSE]

\* the completion event of a thread's request carried v
Answer(v) == [got |-> TRUE, v |-> v]

NoEvt == [kind |-> "none"]

Init ==
  /\ pc = [t \in Threads |-> "idle"]
  /\ ret = [t \in Threads |-> NoRet]
  /\ m_appId = ESP_GATT_IF_NONE
  /\ m_gatts_if = ESP_GATT_IF_NONE
  /\ m_connectedCount = U32Zero
  /\ m_connId = ESP_GATT_IF_NONE
  /\ m_client_addr \in Addrs \cup {NoAddr}    \* not set by the constructor
  /\ m_pServerCallbacks = NULL
  /\ m_connectedServersMap = <<>>
  /\ m_uuidMap = {}
  /\ m_handleMap = <<>>
  /\ services = <<>>
  /\ m_semaphoreRegisterAppEvt = SemInit
  /\ m_semaphoreCreateEvt = SemInit
  /\ m_semaphoreOpenEvt = SemInit
  /\ m_semaphoreRssiCmplEvt = SemInit
  /\ pending = {}
  /\ local = [t \in Threads |-> NULL]
  /\ answer = [t \in Threads |-> NoAnswer]
  /\ link = <<>>
  /\ lastEvt = NoEvt
  /\ read_rssi_cmpl = NULL

\* ============================================================ facade calls
\* Each blocking call is split at the points where the thread can block:
\* "<op>_take" is a thread that entered the call and stands before take(),
\* "<op>_wait" one that issued its request and stands before wait().

\* createApp(appId): m_appId = appId; registerApp(appId)
createApp(t) ==
  /\ pc[t] = "idle"
  /\ \E appId \in AppIds :
       /\ m_appId' = appId
       /\ local' = [local EXCEPT ![t] = appId]
  /\ pc' = [pc EXCEPT ![t] = "registerApp_take"]
  /\ ret' = [ret EXCEPT ![t] = NoRet]
  /\ answer' = [answer EXCEPT ![t] = NoAnswer]
  /\ UNCHANGED <<m_gatts_if, m_connectedCount, m_connId, m_client_addr,
                 m_pServerCallbacks, m_connectedServersMap, m_uuidMap,
                 m_handleMap, services, sems, pending, link, lastEvt,
                 read_rssi_cmpl>>

\* registerApp: take, then esp_ble_gatts_app_register, whose result the code
\* does not look at: accepted or not, the thread goes on to wait()
registerApp_take(t) ==
  /\ pc[t] = "registerApp_take"
  /\ SemFree(m_semaphoreRegisterAppEvt)
  /\ m_semaphoreRegisterAppEvt' = SemTake(m_semaphoreRegisterAppEvt)
  /\ \E accepted \in BOOLEAN :
       pending' = IF accepted
                  THEN pending \cup {[kind |-> "reg", by |-> t, app_id |-> local[t]]}
                  ELSE pending
  /\ pc' = [pc EXCEPT ![t] = "registerApp_wait"]
  /\ UNCHANGED <<ret, serverVars, m_uuidMap, m_handleMap, services,
                 m_semaphoreCreateEvt, m_semaphoreOpenEvt, m_semaphoreRssiCmplEvt,
                 local, answer, link, lastEvt, read_rssi_cmpl>>

registerApp_wait(t) ==
  /\ pc[t] = "registerApp_wait"
  /\ SemFree(m_semaphoreRegisterAppEvt)
  /\ pc' = [pc EXCEPT ![t] = "idle"]
  /\ ret' = [ret EXCEPT ![t] = [op |-> "registerApp", val |-> m_gatts_if,
                                how |-> "waited", own |-> answer[t]]]
  /\ local' = [local EXCEPT ![t] = NULL]
  /\ UNCHANGED <<serverVars, m_uuidMap, m_handleMap, services, sems, pending,
                 answer, link, lastEvt, read_rssi_cmpl>>

\* createService(uuid, numHandles, inst_id): entry
createService(t) ==
  /\ pc[t] = "idle"
  /\ Cardinality(DOMAIN services) + Cardinality({u \in Threads : pc[u] = "createService_take"})
       < MaxServices
  /\ pc' = [pc EXCEPT ![t] = "createService_take"]
  /\ ret' = [ret EXCEPT ![t] = NoRet]
  /\ answer' = [answer EXCEPT ![t] = NoAnswer]
  /\ UNCHANGED <<serverVars, m_uuidMap, m_handleMap, services, sems, pending,
                 local, link, lastEvt, read_rssi_cmpl>>

\* BLEService::executeCreate: the create-service request for (uuid, inst_id)
executeCreate(t, s, uuid, inst_id) ==
  pending \cup {[kind |-> "create", by |-> t, svc |-> s, uuid |-> uuid,
                 inst_id |-> inst_id]}

\* take (when serialized); new BLEService; m_instId = inst_id; setByUUID;
\* executeCreate
createService_body(t, serialized) ==
  /\ pc[t] = "createService_take"
  /\ serialized => SemFree(m_semaphoreCreateEvt)
  /\ m_semaphoreCreateEvt' = IF serialized THEN SemTake(m_semaphoreCreateEvt)
                             ELSE m_semaphoreCreateEvt
  /\ \E uuid \in UUIDs, inst_id \in InstIds :
       LET pService == CHOOSE s \in ServiceIds : s \notin DOMAIN services
       IN  /\ services' = [s \in DOMAIN services \cup {pService} |->
                             IF s = pService
                             THEN [uuid |-> uuid, m_instId |-> inst_id]
                             ELSE services[s]]
           /\ m_uuidMap' = setByUUID(pService)
           /\ pending' = executeCreate(t, pService, uuid, inst_id)
           /\ local' = [local EXCEPT ![t] = pService]
  /\ pc' = [pc EXCEPT ![t] = "createService_wait"]
  /\ UNCHANGED <<ret, serverVars, m_handleMap, m_semaphoreRegisterAppEvt,
                 m_semaphoreOpenEvt, m_semaphoreRssiCmplEvt, answer, link, lastEvt,
                 read_rssi_cmpl>>

\* createService without m_semaphoreCreateEvt.take: callers are not serialized
createService_take_unserialized(t) == createService_body(t, FALSE)

createService_take(t) == createService_body(t, TRUE)

\* wait; return pService
createService_wait(t) ==
  /\ pc[t] = "createService_wait"
  /\ SemFree(m_semaphoreCreateEvt)
  /\ pc' = [pc EXCEPT ![t] = "idle"]
  /\ ret' = [ret EXCEPT ![t] = [op |-> "createService", val |-> local[t],
                                how |-> "waited", own |-> answer[t]]]
  /\ local' = [local EXCEPT ![t] = NULL]
  /\ UNCHANGED <<serverVars, m_uuidMap, m_handleMap, services, sems, pending,
                 answer, link, lastEvt, read_rssi_cmpl>>

\* connect(address): entry
connect(t) ==
  /\ pc[t] = "idle"
  /\ pc' = [pc EXCEPT ![t] = "connect_take"]
  /\ ret' = [ret EXCEPT ![t] = NoRet]
  /\ answer' = [answer EXCEPT ![t] = NoAnswer]
  /\ UNCHANGED <<serverVars, m_uuidMap, m_handleMap, services, sems, pending,
                 local, link, lastEvt, read_rssi_cmpl>>

\* take; esp_ble_gatts_open; if (errRc != ESP_OK) return false
connect_take(t) ==
  /\ pc[t] = "connect_take"
  /\ SemFree(m_semaphoreOpenEvt)
  /\ m_semaphoreOpenEvt' = SemTake(m_semaphoreOpenEvt)
  /\ \E address \in Addrs, errRc \in {"ESP_OK", "ESP_FAIL"} :
       IF errRc # "ESP_OK"
       THEN /\ pc' = [pc EXCEPT ![t] = "idle"]
            /\ ret' = [ret EXCEPT ![t] = [op |-> "connect", val |-> FALSE,
                                          how |-> "rejected", own |-> NoAnswer]]
            /\ UNCHANGED pending
       ELSE /\ pc' = [pc EXCEPT ![t] = "connect_wait"]
            /\ pending' = pending \cup {[kind |-> "open", by |-> t,
                                         gatts_if |-> getGattsIf, addr |-> address]}
            /\ UNCHANGED ret
  /\ UNCHANGED <<serverVars, m_uuidMap, m_handleMap, services,
                 m_semaphoreRegisterAppEvt, m_semaphoreCreateEvt,
                 m_semaphoreRssiCmplEvt, local, answer, link, lastEvt, read_rssi_cmpl>>

\* rc = wait; return rc == ESP_GATT_OK
connect_wait(t) ==
  /\ pc[t] = "connect_wait"
  /\ SemFree(m_semaphoreOpenEvt)
  /\ LET rc == SemWait(m_semaphoreOpenEvt)
     IN  ret' = [ret EXCEPT ![t] = [op |-> "connect", val |-> (rc = U32(ESP_GATT_OK)),
                                    how |-> "waited", own |-> answer[t]]]
  /\ pc' = [pc EXCEPT ![t] = "idle"]
  /\ UNCHANGED <<serverVars, m_uuidMap, m_handleMap, services, sems, pending,
                 local, answer, link, lastEvt, read_rssi_cmpl>>

\* getRssi: if (refuse) return 0, where refuse is m_connectedCount != 1
getRssi_body(t, refuse) ==
  /\ pc[t] = "idle"
  /\ answer' = [answer EXCEPT ![t] = NoAnswer]
  /\ IF refuse
     THEN /\ ret' = [ret EXCEPT ![t] = [op |-> "getRssi", val |-> 0,
                                        how |-> "not one connection",
                                        own |-> NoAnswer]]
          /\ UNCHANGED pc
     ELSE /\ pc' = [pc EXCEPT ![t] = "getRssi_take"]
          /\ ret' = [ret EXCEPT ![t] = NoRet]
  /\ UNCHANGED <<serverVars, m_uuidMap, m_handleMap, services, sems, pending,
                 local, link, lastEvt, read_rssi_cmpl>>

\* getRssi refusing only when nothing is connected: m_connectedCount == 0
getRssi_refuseOnlyZero(t) == getRssi_body(t, m_connectedCount = U32Zero)

getRssi(t) == getRssi_body(t, m_connectedCount # U32One)

\* take; esp_ble_gap_read_rssi(getPeerAddress()); if (rc != ESP_OK) return 0
getRssi_take(t) ==
  /\ pc[t] = "getRssi_take"
  /\ SemFree(m_semaphoreRssiCmplEvt)
  /\ m_semaphoreRssiCmplEvt' = SemTake(m_semaphoreRssiCmplEvt)
  /\ \E rc \in {"ESP_OK", "ESP_FAIL"} :
       IF rc # "ESP_OK"
       THEN /\ pc' = [pc EXCEPT ![t] = "idle"]
            /\ ret' = [ret EXCEPT ![t] = [op |-> "getRssi", val |-> 0,
                                          how |-> "rejected", own |-> NoAnswer]]
            /\ UNCHANGED pending
       ELSE /\ pc' = [pc EXCEPT ![t] = "getRssi_wait"]
            /\ pending' = pending \cup
                 {[kind |-> "rssi", by |-> t, addr |-> getPeerAddress,
                   links |-> link]}
            /\ UNCHANGED ret
  /\ UNCHANGED <<serverVars, m_uuidMap, m_handleMap, services,
                 m_semaphoreRegisterAppEvt, m_semaphoreCreateEvt,
                 m_semaphoreOpenEvt, local, answer, link, lastEvt, read_rssi_cmpl>>

\* int rssiValue = wait; return rssiValue
getRssi_wait(t) ==
  /\ pc[t] = "getRssi_wait"
  /\ SemFree(m_semaphoreRssiCmplEvt)
  /\ LET rssiValue == IntOfU32(SemWait(m_semaphoreRssiCmplEvt))
     IN  ret' = [ret EXCEPT ![t] = [op |-> "getRssi", val |-> rssiValue,
                                    how |-> "waited", own |-> answer[t]]]
  /\ pc' = [pc EXCEPT ![t] = "idle"]
  /\ UNCHANGED <<serverVars, m_uuidMap, m_handleMap, services, sems, pending,
                 local, answer, link, lastEvt, read_rssi_cmpl>>

\* getPeerDevices: a copy of the connection table
getPeerDevicesCall(t) ==
  /\ pc[t] = "idle"
  /\ ret' = [ret EXCEPT ![t] = [op |-> "getPeerDevices", val |-> getPeerDevices,
                                how |-> "read", own |-> NoAnswer]]
  /\ UNCHANGED <<pc, serverVars, m_uuidMap, m_handleMap, services, sems, pending,
                 local, answer, link, lastEvt, read_rssi_cmpl>>

\* What reading ->second.mtu through end() or through an iterator to an
\* erased entry can yield: any uint16_t, of which a few
UndefinedMTUs == {0, DefaultMTU} \cup MTUs

\* getPeerMTU(conn_id), first half: it = m_connectedServersMap.find(conn_id),
\* the entry's iterator or end() (NULL)
getPeerMTU(t) ==
  /\ pc[t] = "idle"
  /\ \E conn_id \in ConnIds :
       local' = [local EXCEPT ![t] = IF conn_id \in DOMAIN m_connectedServersMap
                                     THEN conn_id ELSE NULL]
  /\ pc' = [pc EXCEPT ![t] = "getPeerMTU_deref"]
  /\ ret' = [ret EXCEPT ![t] = NoRet]
  /\ answer' = [answer EXCEPT ![t] = NoAnswer]
  /\ UNCHANGED <<serverVars, m_uuidMap, m_handleMap, services, sems, pending,
                 link, lastEvt, read_rssi_cmpl>>

\* getPeerMTU, second half: return it->second.mtu
getPeerMTU_deref(t) ==
  /\ pc[t] = "getPeerMTU_deref"
  /\ LET it == local[t]
     IN  IF it \in DOMAIN m_connectedServersMap
         THEN ret' = [ret EXCEPT ![t] = [op |-> "getPeerMTU",
                                         val |-> m_connectedServersMap[it].mtu,
                                         how |-> "read", own |-> NoAnswer]]
         ELSE \E garbage \in UndefinedMTUs :
                ret' = [ret EXCEPT ![t] = [op |-> "getPeerMTU", val |-> garbage,
                                           how |-> "undefined", own |-> NoAnswer]]
  /\ pc' = [pc EXCEPT ![t] = "idle"]
  /\ local' = [local EXCEPT ![t] = NULL]
  /\ UNCHANGED <<serverVars, m_uuidMap, m_handleMap, services, sems, pending,
                 answer, link, lastEvt, read_rssi_cmpl>>

\* setCallbacks(pCallbacks)
setCallbacks(t) ==
  /\ pc[t] = "idle"
  /\ \E pCallbacks \in Callbacks \cup {NULL} : m_pServerCallbacks' = pCallbacks
  /\ UNCHANGED <<pc, ret, m_appId, m_gatts_if, m_connectedCount, m_connId,
                 m_client_addr, m_connectedServersMap, m_uuidMap, m_handleMap,
                 services, sems, pending, local, answer, link, lastEvt,
                 read_rssi_cmpl>>

\* removeService(service), for a service the application got from
\* createService or getServiceByUUID: service->stop(); executeDelete();
\* m_serviceMap.removeService(service).  The BLEService object stays allocated.
removeService(t) ==
  /\ pc[t] = "idle"
  /\ \E service \in m_uuidMap :
       /\ m_uuidMap' = m_serviceMap_removeService(service).uuidMap
       /\ m_handleMap' = m_serviceMap_removeService(service).handleMap
       /\ ret' = [ret EXCEPT ![t] = [op |-> "removeService", val |-> service,
                                     how |-> "removed", own |-> NoAnswer]]
  /\ UNCHANGED <<pc, serverVars, services, sems, pending, local, answer, link,
                 lastEvt, read_rssi_cmpl>>

\* ============================================================== dispatcher
\* m_connectedCount stays within the modelled range
CountInRange(x) ==
  \/ x[1] = 0 /\ x[2] <= MaxCount
  \/ x[1] = Half - 1 /\ x[2] >= Half - MaxWrap

\* What a service's event handler or an application callback can read of
\* the server while it runs
ServerState ==
  [gatts_if |-> m_gatts_if, connectedCount |-> m_connectedCount,
   peers |-> m_connectedServersMap, handles |-> m_handleMap]

\* BLEServiceMap::handleGATTServerEvent: how many times the event is handed
\* to each service, one call of its handler per entry of the registry
m_serviceMap_handleGATTServerEvent == [s \in m_uuidMap |-> 1]

\* The forwarding placed before the switch: the services see the server as
\* it was when the event arrived
forwardToServices_beforeSwitch ==
  [forwarded |-> m_serviceMap_handleGATTServerEvent, seen |-> ServerState]

\* m_serviceMap.handleGATTServerEvent(event, gatts_if, param) after the
\* switch: the deliveries, and the server state the services then see
forwardToServices ==
  [forwarded |-> m_serviceMap_handleGATTServerEvent, seen |-> ServerState']

\* ESP_GATTS_REG_EVT
ESP_GATTS_REG_EVT(r) ==
  /\ r \in pending /\ r.kind = "reg"
  /\ \E gatts_if \in GattsIfs :
       /\ m_gatts_if' = gatts_if
       /\ answer' = [answer EXCEPT ![r.by] = Answer(gatts_if)]
  /\ m_semaphoreRegisterAppEvt' = SemGive(m_semaphoreRegisterAppEvt, U32Zero)
  /\ pending' = pending \ {r}
  /\ UNCHANGED <<pc, ret, m_appId, m_connectedCount, m_connId, m_client_addr,
                 m_pServerCallbacks, m_connectedServersMap, m_uuidMap,
                 m_handleMap, services, m_semaphoreCreateEvt,
                 m_semaphoreOpenEvt, m_semaphoreRssiCmplEvt, local, link,
                 read_rssi_cmpl>>
  /\ lastEvt' = [kind |-> "REG", released |-> SemFree(m_semaphoreRegisterAppEvt')]
                  @@ forwardToServices

\* ESP_GATTS_CREATE_EVT: the controller confirms a create request with a
\* service handle it has not issued before
ESP_GATTS_CREATE_EVT(r) ==
  /\ r \in pending /\ r.kind = "create"
  /\ \E service_handle \in Handles \ DOMAIN m_handleMap :
       \E pService \in getByUUID(r.uuid, r.inst_id) :
         /\ m_handleMap' = setByHandle(service_handle, pService)
         /\ answer' = [answer EXCEPT ![r.by] = Answer(service_handle)]
  /\ m_semaphoreCreateEvt' = SemGive(m_semaphoreCreateEvt, U32Zero)
  /\ pending' = pending \ {r}
  /\ UNCHANGED <<pc, ret, serverVars, m_uuidMap, services,
                 m_semaphoreRegisterAppEvt, m_semaphoreOpenEvt,
                 m_semaphoreRssiCmplEvt, local, link, read_rssi_cmpl>>
  /\ lastEvt' = [kind |-> "CREATE", released |-> SemFree(m_semaphoreCreateEvt')]
                  @@ forwardToServices

\* ESP_GATTS_OPEN_EVT: give(param->open.status)
ESP_GATTS_OPEN_EVT(r) ==
  /\ r \in pending /\ r.kind = "open"
  /\ \E status \in Statuses :
       /\ m_semaphoreOpenEvt' = SemGive(m_semaphoreOpenEvt, U32(status))
       /\ answer' = [answer EXCEPT ![r.by] = Answer(status)]
  /\ pending' = pending \ {r}
  /\ UNCHANGED <<pc, ret, serverVars, m_uuidMap, m_handleMap, services,
                 m_semaphoreRegisterAppEvt, m_semaphoreCreateEvt,
                 m_semaphoreRssiCmplEvt, local, link, read_rssi_cmpl>>
  /\ lastEvt' = [kind |-> "OPEN", released |-> SemFree(m_semaphoreOpenEvt')]
                  @@ forwardToServices

\* What onConnect finds when it asks the server: the connection table, the
\* peer address and the connection counter at the time of the call
Observed(table, addr, count) ==
  [called |-> TRUE, peers |-> DOMAIN table, addr |-> addr,
   connectedCount |-> count]

NoCall == [called |-> FALSE]

\* ESP_GATTS_CONNECT_EVT: m_connId = conn_id; addPeerDevice; memcpy of the
\* peer address; the onConnect callbacks, if callbacks are set;
\* m_connectedCount++ (before the callbacks when countFirst)
ESP_GATTS_CONNECT_EVT_body(conn_id, remote_bda, countFirst) ==
  /\ CountInRange(U32Inc(m_connectedCount))
  /\ m_connId' = conn_id
  /\ m_connectedServersMap' = addPeerDevice(conn_id)
  /\ m_client_addr' = remote_bda
  /\ m_connectedCount' = U32Inc(m_connectedCount)
  /\ link' = [c \in DOMAIN link \cup {conn_id} |->
                IF c = conn_id THEN remote_bda ELSE link[c]]
  /\ UNCHANGED <<pc, ret, m_appId, m_gatts_if, m_pServerCallbacks, m_uuidMap,
                 m_handleMap, services, sems, pending, local, answer,
                 read_rssi_cmpl>>
  /\ lastEvt' = [kind |-> "CONNECT", conn_id |-> conn_id,
                 onConnect |->
                   IF m_pServerCallbacks # NULL
                   THEN Observed(m_connectedServersMap', m_client_addr',
                                 IF countFirst THEN m_connectedCount'
                                 ELSE m_connectedCount)
                   ELSE NoCall]
                  @@ forwardToServices

\* ESP_GATTS_CONNECT_EVT counting the connection before the callbacks run
ESP_GATTS_CONNECT_EVT_countFirst(conn_id, remote_bda) ==
  ESP_GATTS_CONNECT_EVT_body(conn_id, remote_bda, TRUE)

ESP_GATTS_CONNECT_EVT(conn_id, remote_bda) ==
  ESP_GATTS_CONNECT_EVT_body(conn_id, remote_bda, FALSE)

\* std::map::erase(conn_id) invalidates the iterators to the erased entry:
\* the locals of the getPeerMTU calls that hold one
invalidated(conn_id) ==
  [t \in Threads |->
     IF pc[t] = "getPeerMTU_deref" /\ local[t] = conn_id
          /\ conn_id \in DOMAIN m_connectedServersMap
     THEN Dangling ELSE local[t]]

\* ESP_GATTS_DISCONNECT_EVT: m_connectedCount--; onDisconnect, if callbacks
\* are set; startAdvertising; removePeerDevice
ESP_GATTS_DISCONNECT_EVT(conn_id) ==
  /\ CountInRange(U32Dec(m_connectedCount))
  /\ m_connectedCount' = U32Dec(m_connectedCount)
  /\ m_connectedServersMap' = removePeerDevice(conn_id)
  /\ local' = invalidated(conn_id)
  /\ link' = [c \in DOMAIN link \ {conn_id} |-> link[c]]
  /\ UNCHANGED <<pc, ret, m_appId, m_gatts_if, m_connId, m_client_addr,
                 m_pServerCallbacks, m_uuidMap, m_handleMap, services, sems,
                 pending, answer, read_rssi_cmpl>>
  /\ lastEvt' = [kind |-> "DISCONNECT", conn_id |-> conn_id] @@ forwardToServices

\* ESP_GATTS_MTU_EVT
ESP_GATTS_MTU_EVT(conn_id, mtu) ==
  /\ m_connectedServersMap' = updatePeerMTU(conn_id, mtu)
  /\ UNCHANGED <<pc, ret, m_appId, m_gatts_if, m_connectedCount, m_connId,
                 m_client_addr, m_pServerCallbacks, m_uuidMap, m_handleMap,
                 services, sems, pending, local, answer, link, read_rssi_cmpl>>
  /\ lastEvt' = [kind |-> "MTU", conn_id |-> conn_id, mtu |-> mtu]
                  @@ forwardToServices

\* The events the switch does nothing for: ESP_GATTS_ADD_CHAR_EVT,
\* ESP_GATTS_READ_EVT, ESP_GATTS_WRITE_EVT, and every kind it has no case
\* for (default)
ESP_GATTS_OTHER_EVT(event) ==
  /\ UNCHANGED <<pc, ret, serverVars, m_uuidMap, m_handleMap, services, sems,
                 pending, local, answer, link, read_rssi_cmpl>>
  /\ lastEvt' = [kind |-> event] @@ forwardToServices

\* handleGAPEvent, ESP_GAP_BLE_READ_RSSI_COMPLETE_EVT: give((uint32_t) rssi)
ESP_GAP_BLE_READ_RSSI_COMPLETE_EVT(r) ==
  /\ r \in pending /\ r.kind = "rssi"
  /\ \E rssi \in Rssis :
       /\ m_semaphoreRssiCmplEvt' = SemGive(m_semaphoreRssiCmplEvt, U32OfInt8(rssi))
       /\ answer' = [answer EXCEPT ![r.by] = Answer(rssi)]
       /\ read_rssi_cmpl' = rssi
  /\ pending' = pending \ {r}
  /\ UNCHANGED <<pc, ret, serverVars, m_uuidMap, m_handleMap, services,
                 m_semaphoreRegisterAppEvt, m_semaphoreCreateEvt,
                 m_semaphoreOpenEvt, local, link, lastEvt>>

handleGATTServerEvent ==
  \/ \E r \in pending : ESP_GATTS_REG_EVT(r)
  \/ \E r \in pending : ESP_GATTS_CREATE_EVT(r)
  \/ \E r \in pending : ESP_GATTS_OPEN_EVT(r)
  \/ \E conn_id \in ConnIds, remote_bda \in Addrs :
       ESP_GATTS_CONNECT_EVT(conn_id, remote_bda)
  \/ \E conn_id \in ConnIds : ESP_GATTS_DISCONNECT_EVT(conn_id)
  \/ \E conn_id \in ConnIds, mtu \in MTUs : ESP_GATTS_MTU_EVT(conn_id, mtu)
  \/ \E event \in OtherEvents : ESP_GATTS_OTHER_EVT(event)

handleGAPEvent == \E r \in pending : ESP_GAP_BLE_READ_RSSI_COMPLETE_EVT(r)

Facade(t) ==
  \/ createApp(t) \/ registerApp_take(t) \/ registerApp_wait(t)
  \/ createService(t) \/ createService_take(t) \/ createService_wait(t)
  \/ connect(t) \/ connect_take(t) \/ connect_wait(t)
  \/ getRssi(t) \/ getRssi_take(t) \/ getRssi_wait(t)
  \/ getPeerDevicesCall(t)
  \/ removeService(t)
  \/ setCallbacks(t)
  \/ getPeerMTU(t) \/ getPeerMTU_deref(t)

Next ==
  \/ \E t \in Threads : Facade(t)
  \/ handleGATTServerEvent
  \/ handleGAPEvent

Spec == Init /\ [][Next]_vars

\* The service registry: registration, service creation and their events
NextServices ==
  \/ \E t \in Threads :
        \/ createApp(t) \/ registerApp_take(t) \/ registerApp_wait(t)
        \/ createService(t) \/ createService_take(t) \/ createService_wait(t)
  \/ \E r \in pending : ESP_GATTS_REG_EVT(r)
  \/ \E r \in pending : ESP_GATTS_CREATE_EVT(r)

SpecServices == Init /\ [][NextServices]_vars

\* The service registry with removal: service creation, its event and
\* removeService
NextRegistry ==
  \/ \E t \in Threads :
        \/ createService(t) \/ createService_take(t) \/ createService_wait(t)
        \/ removeService(t)
  \/ \E r \in pending : ESP_GATTS_CREATE_EVT(r)

SpecRegistry == Init /\ [][NextRegistry]_vars

\* The calls that wait for a peer: connect and getRssi, with the link events
NextCalls ==
  \/ \E t \in Threads :
        \/ connect(t) \/ connect_take(t) \/ connect_wait(t)
        \/ getRssi(t) \/ getRssi_take(t) \/ getRssi_wait(t)
  \/ \E r \in pending : ESP_GATTS_OPEN_EVT(r)
  \/ \E conn_id \in ConnIds, remote_bda \in Addrs :
       ESP_GATTS_CONNECT_EVT(conn_id, remote_bda)
  \/ \E conn_id \in ConnIds : ESP_GATTS_DISCONNECT_EVT(conn_id)
  \/ handleGAPEvent

SpecCalls == Init /\ [][NextCalls]_vars

\* getRssi with the link events and the read-complete event
NextRssi ==
  \/ \E t \in Threads : getRssi(t) \/ getRssi_take(t) \/ getRssi_wait(t)
  \/ \E conn_id \in ConnIds, remote_bda \in Addrs :
       ESP_GATTS_CONNECT_EVT(conn_id, remote_bda)
  \/ \E conn_id \in ConnIds : ESP_GATTS_DISCONNECT_EVT(conn_id)
  \/ handleGAPEvent

SpecRssi == Init /\ [][NextRssi]_vars

\* The dispatcher with a registry to forward to: service creation, its
\* event and the events the switch does nothing for
NextDispatch ==
  \/ \E t \in Threads :
        createService(t) \/ createService_take(t) \/ createService_wait(t)
  \/ \E r \in pending : ESP_GATTS_CREATE_EVT(r)
  \/ \E event \in OtherEvents : ESP_GATTS_OTHER_EVT(event)

SpecDispatch == Init /\ [][NextDispatch]_vars

\* The same with the link events
NextDispatchAll ==
  \/ NextDispatch
  \/ \E conn_id \in ConnIds, remote_bda \in Addrs :
       ESP_GATTS_CONNECT_EVT(conn_id, remote_bda)
  \/ \E conn_id \in ConnIds : ESP_GATTS_DISCONNECT_EVT(conn_id)
  \/ \E conn_id \in ConnIds, mtu \in MTUs : ESP_GATTS_MTU_EVT(conn_id, mtu)

SpecDispatchAll == Init /\ [][NextDispatchAll]_vars

\* The connection table read through an iterator, with the link events
NextTables ==
  \/ \E t \in Threads : getPeerMTU(t) \/ getPeerMTU_deref(t)
  \/ \E conn_id \in ConnIds, remote_bda \in Addrs :
       ESP_GATTS_CONNECT_EVT(conn_id, remote_bda)
  \/ \E conn_id \in ConnIds : ESP_GATTS_DISCONNECT_EVT(conn_id)
  \/ \E conn_id \in ConnIds, mtu \in MTUs : ESP_GATTS_MTU_EVT(conn_id, mtu)

SpecTables == Init /\ [][NextTables]_vars

\* The application callbacks: setCallbacks and the link events
NextCallbacks ==
  \/ \E t \in Threads : setCallbacks(t)
  \/ \E conn_id \in ConnIds, remote_bda \in Addrs :
       ESP_GATTS_CONNECT_EVT(conn_id, remote_bda)
  \/ \E conn_id \in ConnIds : ESP_GATTS_DISCONNECT_EVT(conn_id)

SpecCallbacks == Init /\ [][NextCallbacks]_vars

\* The connection table: link events and the table's readers
NextConn ==
  \/ \E t \in Threads : getPeerDevicesCall(t)
  \/ \E conn_id \in ConnIds, remote_bda \in Addrs :
       ESP_GATTS_CONNECT_EVT(conn_id, remote_bda)
  \/ \E conn_id \in ConnIds : ESP_GATTS_DISCONNECT_EVT(conn_id)
  \/ \E conn_id \in ConnIds, mtu \in MTUs : ESP_GATTS_MTU_EVT(conn_id, mtu)

SpecConn == Init /\ [][NextConn]_vars

\* ================================================================== claims

\* The services created so far have pairwise different UUIDs
DistinctUUIDs ==
  \A s1, s2 \in DOMAIN services :
    s1 # s2 => services[s1].uuid # services[s2].uuid

\* The services created so far have pairwise different (UUID, instance) pairs
DistinctIds ==
  \A s1, s2 \in DOMAIN services :
    s1 # s2 => services[s1] # services[s2]

\* Thread t's last call was createService and it has returned
ReturnedService(t) == pc[t] = "idle" /\ ret[t].op = "createService"

\* The service that the handle map binds to the handle carried by the
\* confirmation event of the request of t's returned createService call
BoundToOwnHandle(t) ==
  IF ret[t].own.got THEN getByHandle(ret[t].own.v) ELSE NULL

\* C1: with createService called concurrently for different UUIDs, every
\* call that has returned returned a service that the handle map binds to
\* the handle carried by the confirmation event of its own request, two
\* returned calls never share a handle, and as long as the creation
\* semaphore is taken a confirmation event is still to come, so every call
\* returns.
C1_OwnHandleUnderConcurrency ==
  DistinctUUIDs =>
    /\ \A t \in Threads :
         ReturnedService(t) =>
           /\ ret[t].own.got
           /\ BoundToOwnHandle(t) = ret[t].val
    /\ \A t, u \in Threads :
         (t # u /\ ReturnedService(t) /\ ReturnedService(u)) =>
           /\ ret[t].own # ret[u].own
           /\ BoundToOwnHandle(u) # ret[t].val
    /\ m_semaphoreCreateEvt.taken => \E r \in pending : r.kind = "create"

\* C1 witness: both threads have returned from createService, for two
\* services with different UUIDs, each bound to its own handle
C1_Witness ==
  /\ DistinctUUIDs
  /\ \A t \in Threads : ReturnedService(t) /\ BoundToOwnHandle(t) = ret[t].val
  /\ \E t, u \in Threads : ret[t].val # ret[u].val

\* C2: a createService call that has returned did so after the confirmation
\* event of its request was handled, and lookup by the handle of that event
\* yields the service the call returned (services with pairwise different
\* (UUID, instance) pairs).
C2_ReturnedServiceIsBoundToItsHandle ==
  DistinctIds =>
    \A t \in Threads :
      ReturnedService(t) =>
        /\ ret[t].own.got
        /\ BoundToOwnHandle(t) = ret[t].val

\* C3: when the controller rejects the request of connect (of getRssi), the
\* call returns false (0) and leaves its semaphore released.
C3_RejectionLeavesRendezvousUnarmed ==
  [][\A t \in Threads :
       /\ (pc[t] = "connect_take" /\ pc'[t] = "idle") =>
            (ret'[t].val = FALSE /\ SemFree(m_semaphoreOpenEvt'))
       /\ (pc[t] = "getRssi_take" /\ pc'[t] = "idle") =>
            (ret'[t].val = 0 /\ SemFree(m_semaphoreRssiCmplEvt'))]_vars

\* Thread t stands before take() or wait() of a semaphore that is taken
\* while the controller holds no request whose completion event gives it:
\* no step can release the semaphore any more
BlockedForever(t) ==
  \/ /\ pc[t] \in {"registerApp_take", "registerApp_wait"}
     /\ m_semaphoreRegisterAppEvt.taken
     /\ ~\E r \in pending : r.kind = "reg"
  \/ /\ pc[t] \in {"createService_take", "createService_wait"}
     /\ m_semaphoreCreateEvt.taken
     /\ ~\E r \in pending : r.kind = "create"
  \/ /\ pc[t] \in {"connect_take", "connect_wait"}
     /\ m_semaphoreOpenEvt.taken
     /\ ~\E r \in pending : r.kind = "open"
  \/ /\ pc[t] \in {"getRssi_take", "getRssi_wait"}
     /\ m_semaphoreRssiCmplEvt.taken
     /\ ~\E r \in pending : r.kind = "rssi"

\* Once blocked forever, always blocked forever: what makes the state of
\* BlockedForever one that no later step leaves
BlockedForeverIsPermanent ==
  [][\A t \in Threads : BlockedForever(t) => BlockedForever(t)']_vars

\* C4: no reachable state has a caller of a blocking facade call blocked
\* forever on a rendezvous.
C4_NoCallerBlockedForever == \A t \in Threads : ~BlockedForever(t)

\* C5: a connect call whose request the controller accepted returns true
\* exactly if the status carried by the open-complete event of its own
\* request is ESP_GATT_OK.
C5_ConnectReturnsStatusOfOwnEvent ==
  \A t \in Threads :
    (pc[t] = "idle" /\ ret[t].op = "connect" /\ ret[t].how = "waited") =>
      /\ ret[t].own.got
      /\ ret[t].val <=> (ret[t].own.v = ESP_GATT_OK)

C7_RssiTargetsTheConnectedPeer ==
  \A r \in pending :
    (r.kind = "rssi" /\ Cardinality(DOMAIN r.links) = 1) =>
      \A c \in DOMAIN r.links : r.addr = r.links[c]

\* C8: the connection table never has more entries than m_connectedCount.
C8_TableNotLargerThanCount ==
  U32Geq(m_connectedCount, Cardinality(DOMAIN m_connectedServersMap))

\* C9: the connection table, and every snapshot getPeerDevices takes, holds
\* an entry for a connection identifier only if a connect event carried that
\* identifier and no disconnect event for it has been handled since.
C9_NoEntryAfterDisconnect ==
  [][/\ DOMAIN m_connectedServersMap' \subseteq DOMAIN link'
     /\ \A t \in Threads :
          (ret'[t] # ret[t] /\ ret'[t].op = "getPeerDevices") =>
            DOMAIN ret'[t].val \subseteq DOMAIN link']_vars

\* C9 witness: a snapshot shows an entry for c, and the last event handled
\* is the disconnect of c, after which the table has no entry for c
C9_Witness ==
  \E t \in Threads, c \in ConnIds :
    /\ ret[t].op = "getPeerDevices" /\ c \in DOMAIN ret[t].val
    /\ lastEvt.kind = "DISCONNECT" /\ lastEvt.conn_id = c
    /\ c \notin DOMAIN m_connectedServersMap

\* C10: right after a connect event for c the entry for c has mtu 23 and
\* connected = true.
C10_ConnectResetsEntry ==
  lastEvt.kind = "CONNECT" =>
    /\ lastEvt.conn_id \in DOMAIN m_connectedServersMap
    /\ m_connectedServersMap[lastEvt.conn_id].mtu = DefaultMTU
    /\ m_connectedServersMap[lastEvt.conn_id].connected

\* The threads that have taken (armed) the semaphore of a call and have not
\* yet returned from its wait()
Outstanding(op) == {t \in Threads : pc[t] = op \o "_wait"}

\* C11: for each of registerApp, createService, connect and getRssi, at most
\* one call at a time has taken the semaphore and not yet returned from its
\* wait().
C11_OneOutstandingCallPerRendezvous ==
  \A op \in {"registerApp", "createService", "connect", "getRssi"} :
    Cardinality(Outstanding(op)) <= 1

\* C12: a registerApp call that has returned did so after the
\* registration-complete event of its request was handled, and m_gatts_if at
\* the moment of the return is the interface that event carried, not
\* ESP_GATT_IF_NONE.
C12_RegisterAppReturnsWithInterfaceOfItsEvent ==
  \A t \in Threads :
    (pc[t] = "idle" /\ ret[t].op = "registerApp") =>
      /\ ret[t].own.got
      /\ ret[t].val = ret[t].own.v
      /\ ret[t].val # ESP_GATT_IF_NONE

\* C13: a create-confirmation event whose (uuid, inst_id) resolves to no
\* service in the registry binds its handle to nothing and does not give
\* m_semaphoreCreateEvt.
C13_UnresolvedConfirmationBindsNothing ==
  [][\A r \in pending :
       (r.kind = "create" /\ r \notin pending'
          /\ getByUUID(r.uuid, r.inst_id) = {NULL}) =>
         /\ m_handleMap' = m_handleMap
         /\ m_semaphoreCreateEvt' = m_semaphoreCreateEvt]_vars

\* The handles that the handle map resolves to service s
HandlesOf(s) == {h \in DOMAIN m_handleMap : m_handleMap[h] = s}

\* C14: with services of pairwise different (UUID, instance) pairs, at most
\* one handle resolves to a service, and once a handle resolves to a service
\* no step changes that as long as the service stays in the registry.
C14_HandleBoundOnceAndForGood ==
  [][DistinctIds' =>
       \A s \in DOMAIN services :
         /\ Cardinality(HandlesOf(s)') <= 1
         /\ (HandlesOf(s) # {} /\ s \in m_uuidMap') =>
              HandlesOf(s)' = HandlesOf(s)]_vars

\* C15: a disconnect event for a connection identifier with no entry in the
\* connection table leaves the table and m_connectedCount unchanged, and
\* m_connectedCount never goes below zero (never wraps to the top of
\* uint32_t).
C15_UnknownDisconnectIsNoOp ==
  [][/\ \A c \in ConnIds :
          (c \notin DOMAIN m_connectedServersMap /\ lastEvt'.kind = "DISCONNECT"
             /\ lastEvt'.conn_id = c /\ pc' = pc /\ ret' = ret) =>
            /\ m_connectedServersMap' = m_connectedServersMap
            /\ m_connectedCount' = m_connectedCount
     /\ m_connectedCount'[1] = 0]_vars

\* C16: an MTU event (c, n) sets the mtu of the entry for c to n when the
\* connection table has one, leaving the entry's other fields, every other
\* entry, the keys of the table and m_connectedCount as they were; when the
\* table has no entry for c the event changes neither the table nor the
\* counter.
C16_MtuEventTouchesOnlyTheMtuOfItsEntry ==
  [][(lastEvt'.kind = "MTU" /\ pc' = pc /\ ret' = ret) =>
       LET c == lastEvt'.conn_id
           n == lastEvt'.mtu
       IN  /\ m_connectedCount' = m_connectedCount
           /\ DOMAIN m_connectedServersMap' = DOMAIN m_connectedServersMap
           /\ \A d \in DOMAIN m_connectedServersMap :
                m_connectedServersMap'[d] =
                  IF d = c
                  THEN [m_connectedServersMap[d] EXCEPT !.mtu = n]
                  ELSE m_connectedServersMap[d]]_vars

\* C16 witness: the last event handled is an MTU event for a connection
\* whose entry now has the negotiated mtu, while the entry of the other
\* connection still has the default, and the counter counts both
C16_Witness ==
  /\ lastEvt.kind = "MTU"
  /\ lastEvt.conn_id \in DOMAIN m_connectedServersMap
  /\ m_connectedServersMap[lastEvt.conn_id].mtu = lastEvt.mtu
  /\ \E d \in DOMAIN m_connectedServersMap :
       d # lastEvt.conn_id /\ m_connectedServersMap[d].mtu = DefaultMTU
  /\ m_connectedCount = U32(2)

\* C17: whenever the dispatcher has handled a GATT server event, of a kind
\* the switch has a case for or not, the event was handed exactly once to
\* every service of the registry, and the services saw the server as the
\* switch left it: the interface of a registration event recorded, the
\* handle of a create event bound, the entry of a connect event in the
\* table and that of a disconnect event gone, the mtu of an MTU event
\* written, the semaphore of a completion event given; an event the switch
\* does nothing for changes nothing and is forwarded all the same.
C17_EveryEventForwardedOnceAfterTheSwitch ==
  [][lastEvt' # lastEvt =>
       LET e == lastEvt'
       IN  /\ DOMAIN e.forwarded = m_uuidMap'
           /\ \A s \in m_uuidMap' : e.forwarded[s] = 1
           /\ e.seen = ServerState'
           /\ e.kind = "REG" => (e.seen.gatts_if \in GattsIfs /\ e.released)
           /\ e.kind = "CREATE" =>
                (DOMAIN e.seen.handles # DOMAIN m_handleMap /\ e.released)
           /\ e.kind = "OPEN" => e.released
           /\ e.kind = "CONNECT" =>
                (e.conn_id \in DOMAIN e.seen.peers
                   /\ e.seen.connectedCount = U32Inc(m_connectedCount))
           /\ e.kind = "DISCONNECT" =>
                (e.conn_id \notin DOMAIN e.seen.peers
                   /\ e.seen.connectedCount = U32Dec(m_connectedCount))
           /\ (e.kind = "MTU" /\ e.conn_id \in DOMAIN m_connectedServersMap) =>
                e.seen.peers[e.conn_id].mtu = e.mtu
           /\ e.kind \in OtherEvents =>
                /\ ServerState' = ServerState
                /\ UNCHANGED <<pc, ret, serverVars, m_uuidMap, services, sems,
                               pending, local, answer>>]_vars

\* C17 witness: the last event handled is of a kind the switch has no case
\* for, and it was handed once to each of two services, one of which has no
\* handle yet
C17_Witness ==
  /\ lastEvt.kind = "ESP_GATTS_CONF_EVT"
  /\ Cardinality(DOMAIN lastEvt.forwarded) = MaxServices
  /\ \A s \in DOMAIN lastEvt.forwarded : lastEvt.forwarded[s] = 1
  /\ \E s \in DOMAIN lastEvt.forwarded : HandlesOf(s) = {}

\* An application thread is inside an access to the connection table: it
\* holds the iterator that find() returned and has not read through it yet
InsideTableAccess(t) == pc[t] = "getPeerMTU_deref"

\* C18: while an application thread is inside an access to the connection
\* table, the dispatcher does not insert into, erase from or write to that
\* table.
C18_NoDispatcherAccessDuringApplicationAccess ==
  [][(\E t \in Threads : InsideTableAccess(t)) =>
       m_connectedServersMap' = m_connectedServersMap]_vars

\* C19: once a registration event has recorded an interface, no step changes
\* what getGattsIf returns.
C19_InterfaceAssignedOnce ==
  [][getGattsIf # ESP_GATT_IF_NONE => getGattsIf' = getGattsIf]_vars

\* C20: when the handler of a connect event has called onConnect, the
\* callback found an entry for the new connection in the table, the address
\* of the new peer as the server's peer address, and a connection counter
\* one below the one the handler leaves, the new connection not yet counted.
C20_OnConnectSeesEntryAndAddressBeforeTheCount ==
  (lastEvt.kind = "CONNECT" /\ lastEvt.onConnect.called) =>
    /\ lastEvt.conn_id \in lastEvt.onConnect.peers
    /\ lastEvt.onConnect.addr = link[lastEvt.conn_id]
    /\ U32Inc(lastEvt.onConnect.connectedCount) = m_connectedCount

\* C20 witness: onConnect was called for a second connection: it found both
\* entries in the table and a counter of one
C20_Witness ==
  /\ lastEvt.kind = "CONNECT" /\ lastEvt.onConnect.called
  /\ lastEvt.onConnect.peers = ConnIds
  /\ lastEvt.onConnect.addr = link[lastEvt.conn_id]
  /\ lastEvt.onConnect.connectedCount = U32One
  /\ m_connectedCount = U32(2)

====
